---- MODULE Spec2Model ----
(***************************************************************************)
(* A model of the propositional-logic truth-table generator: the scanner, *)
(* the shunting-yard parser and the AST of src/src/Components/parser.js,  *)
(* the classifier, truth table and joint checker of the table component   *)
(* (src/unnamed/part_002), and the form and list handlers                 *)
(* (src/unnamed/part_001, part_002).                                      *)
(*                                                                         *)
(* Text is a sequence of characters, a character being a one-character    *)
(* string; a character outside ASCII is written "<U+xxxx>".  Positions in *)
(* text are 0-based as in the source.  JavaScript values that are not     *)
(* TLA+ values are encoded: see ObjectPrototype, undefinedNode, JSValue.  *)
(***************************************************************************)
EXTENDS Integers, Sequences, FiniteSets, TLC

(***************************************************************************)
(* Characters                                                              *)
(***************************************************************************)
LowerLetters ==
    {"a","b","c","d","e","f","g","h","i","j","k","l","m",
     "n","o","p","q","r","s","t","u","v","w","x","y","z"}

UpperLetters ==
    {"A","B","C","D","E","F","G","H","I","J","K","L","M",
     "N","O","P","Q","R","S","T","U","V","W","X","Y","Z"}

DigitChars == {"0","1","2","3","4","5","6","7","8","9"}

\* /[A-Za-z_]/ and /[A-Za-z_0-9]/ of tryReadVariableName
VarStartChars == LowerLetters \cup UpperLetters \cup {"_"}

VarChars == VarStartChars \cup DigitChars

\* the characters that /\s/ matches, as far as the inputs use them
WhitespaceChars == {" ", "\t"}

\* the character class of tryReadOperator's case 9
SingleCharOperators ==
    {"(", ")", "~", "T", "F", "^", "!",
     "<U+2227>", "<U+2228>", "<U+2192>", "<U+2194>", "<U+22A4>", "<U+22A5>", "<U+00AC>"}

\* okayChars of checkIntegrity
okayChars ==
    VarChars \cup WhitespaceChars \cup
    {"\\", "/", "<", ">", "-", "~", "^", "(", ")", "&", "|", "=", "!",
     "<U+2227>", "<U+2228>", "<U+2192>", "<U+2194>", "<U+22A4>", "<U+22A5>", "<U+00AC>"}

\* kScannerConstants.EOF
EOF == "$"

\* The order of the UTF-16 code units of the characters of a variable name
\* (digits < upper case < underscore < lower case): what the default
\* comparison of Array.prototype.sort compares.
CodeOrder ==
    <<"0","1","2","3","4","5","6","7","8","9",
      "A","B","C","D","E","F","G","H","I","J","K","L","M",
      "N","O","P","Q","R","S","T","U","V","W","X","Y","Z",
      "_",
      "a","b","c","d","e","f","g","h","i","j","k","l","m",
      "n","o","p","q","r","s","t","u","v","w","x","y","z">>

CharCode(c) == CHOOSE k \in 1..Len(CodeOrder) : CodeOrder[k] = c

(***************************************************************************)
(* Strings                                                                 *)
(***************************************************************************)
Min(a, b) == IF a < b THEN a ELSE b

\* String.prototype.charAt: the empty string outside the text
charAt(input, index) ==
    IF index >= 0 /\ index < Len(input) THEN input[index + 1] ELSE ""

\* String.prototype.substring(from, to), for 0 <= from <= to
substring(input, from, to) == SubSeq(input, from + 1, Min(to, Len(input)))

\* the text as one string, to compare a lexeme with a literal of the source
RECURSIVE Join(_)
Join(s) == IF s = <<>> THEN "" ELSE s[1] \o Join(Tail(s))

\* a < b for two strings, as the default sort order compares them
RECURSIVE StringLess(_, _)
StringLess(a, b) ==
    IF b = <<>> THEN FALSE
    ELSE IF a = <<>> THEN TRUE
    ELSE IF a[1] # b[1] THEN CharCode(a[1]) < CharCode(b[1])
    ELSE StringLess(Tail(a), Tail(b))

RECURSIVE Concat(_)
Concat(ss) == IF ss = <<>> THEN <<>> ELSE ss[1] \o Concat(Tail(ss))

(***************************************************************************)
(* Scanner                                                                 *)
(***************************************************************************)
\* Object.prototype: what variableSet["__proto__"] reads, because the
\* assignment variableSet["__proto__"] = true creates no own property.  It is
\* no number; as an array index it selects nothing.  Encoded as -1.
ObjectPrototype == -1

\* the name whose assignment to a plain object is swallowed by the
\* __proto__ setter of Object.prototype
ProtoName == <<"_","_","p","r","o","t","o","_","_">>

\* isReservedWord without the longest word
isReservedWordShort(token) ==
    token \in {<<"T">>,
               <<"F">>,
               <<"a","n","d">>,
               <<"o","r">>,
               <<"n","o","t">>,
               <<"i","f","f">>,
               <<"t","r","u","e">>,
               <<"f","a","l","s","e">>}

isReservedWord(token) ==
    token \in {<<"T">>,
               <<"F">>,
               <<"a","n","d">>,
               <<"o","r">>,
               <<"n","o","t">>,
               <<"i","f","f">>,
               <<"i","m","p","l","i","e","s">>,
               <<"t","r","u","e">>,
               <<"f","a","l","s","e">>}

RECURSIVE ReadNameChars(_, _)
ReadNameChars(input, index) ==
    IF charAt(input, index) \in VarChars
    THEN <<charAt(input, index)>> \o ReadNameChars(input, index + 1)
    ELSE <<>>

\* null is modelled as the empty sequence: a name is never empty
tryReadVariableName(input, index) ==
    IF charAt(input, index) \notin VarStartChars THEN <<>>
    ELSE LET result == ReadNameChars(input, index)
         IN  IF isReservedWord(result) THEN <<>> ELSE result

isVariableStart(input, index) == tryReadVariableName(input, index) # <<>>

\* variableSet is the sequence of the object's own keys in insertion order
\* (the order for-in enumerates them in; no key is an array index).
scanVariableSet(variableName, variableSet) ==
    IF variableName = ProtoName THEN variableSet
    ELSE IF \E k \in 1..Len(variableSet) : variableSet[k] = variableName
         THEN variableSet
         ELSE Append(variableSet, variableName)

\* null is modelled as the empty sequence: a lexeme is never empty
tryReadOperator(input, index) ==
    LET sub(n) == substring(input, index, index + n)
        has(n) == index < Len(input) - (n - 1)
    IN  IF has(15) /\ sub(15) \in
                {<<"\\","l","e","f","t","r","i","g","h","t","a","r","r","o","w">>,
                 <<"\\","L","e","f","t","r","i","g","h","t","a","r","r","o","w">>}
            THEN sub(15)
        ELSE IF has(11) /\ sub(11) \in
                {<<"\\","r","i","g","h","t","a","r","r","o","w">>,
                 <<"\\","R","i","g","h","t","a","r","r","o","w">>}
            THEN sub(11)
        ELSE IF has(7) /\ sub(7) \in
                {<<"i","m","p","l","i","e","s">>}
            THEN sub(7)
        ELSE IF has(6) /\ sub(6) \in
                {<<"\\","w","e","d","g","e">>}
            THEN sub(6)
        ELSE IF has(5) /\ sub(5) \in
                {<<"f","a","l","s","e">>,
                 <<"\\","l","n","o","t">>,
                 <<"\\","l","n","e","g">>,
                 <<"\\","l","a","n","d">>}
            THEN sub(5)
        ELSE IF has(4) /\ sub(4) \in
                {<<"t","r","u","e">>,
                 <<"\\","t","o","p">>,
                 <<"\\","b","o","t">>,
                 <<"\\","l","o","r">>,
                 <<"\\","v","e","e">>,
                 <<"\\","n","e","g">>}
            THEN sub(4)
        ELSE IF has(3) /\ sub(3) \in
                {<<"<","-",">">>,
                 <<"a","n","d">>,
                 <<"<","=",">">>,
                 <<"n","o","t">>,
                 <<"i","f","f">>,
                 <<"\\","t","o">>}
            THEN sub(3)
        ELSE IF has(2) /\ sub(2) \in
                {<<"/","\\">>,
                 <<"\\","/">>,
                 <<"-",">">>,
                 <<"&","&">>,
                 <<"|","|">>,
                 <<"o","r">>,
                 <<"=",">">>}
            THEN sub(2)
        ELSE IF charAt(input, index) \in SingleCharOperators
            THEN <<charAt(input, index)>>
        ELSE <<>>

isOperatorStart(input, index) == tryReadOperator(input, index) # <<>>

\* the token type of a lexeme
translate(input) ==
    IF input \in
            {<<"&","&">>,
             <<"a","n","d">>,
             <<"<U+2227>">>,
             <<"\\","l","a","n","d">>,
             <<"\\","w","e","d","g","e">>,
             <<"^">>}
        THEN "/\\"
    ELSE IF input \in
            {<<"|","|">>,
             <<"o","r">>,
             <<"<U+2228>">>,
             <<"\\","l","o","r">>,
             <<"\\","v","e","e">>}
        THEN "\\/"
    ELSE IF input \in
            {<<"=",">">>,
             <<"<U+2192>">>,
             <<"i","m","p","l","i","e","s">>,
             <<"\\","t","o">>,
             <<"\\","r","i","g","h","t","a","r","r","o","w">>,
             <<"\\","R","i","g","h","t","a","r","r","o","w">>}
        THEN "->"
    ELSE IF input \in
            {<<"<","=",">">>,
             <<"<U+2194>">>,
             <<"i","f","f">>,
             <<"\\","l","e","f","t","r","i","g","h","t","a","r","r","o","w">>,
             <<"\\","L","e","f","t","r","i","g","h","t","a","r","r","o","w">>}
        THEN "<->"
    ELSE IF input \in
            {<<"n","o","t">>,
             <<"!">>,
             <<"<U+00AC>">>,
             <<"\\","l","n","o","t">>,
             <<"\\","n","e","g">>}
        THEN "~"
    ELSE IF input \in
            {<<"<U+22A4>">>,
             <<"t","r","u","e">>,
             <<"\\","t","o","p">>}
        THEN "T"
    ELSE IF input \in
            {<<"<U+22A5>">>,
             <<"f","a","l","s","e">>,
             <<"\\","b","o","t">>}
        THEN "F"
    ELSE IF Len(input) = 1 THEN input[1]
    ELSE Join(input)

isWhitespace(char) == char \in WhitespaceChars

makeIdentityToken(str, index) ==
    [type |-> translate(str), start |-> index, end |-> index + Len(str)]

makeVariableToken(varIndex, start, end) ==
    [type |-> "variable", index |-> varIndex, start |-> start, end |-> end]

\* scannerFail with a span of one character more
scannerFailWide(why, start, end) ==
    [ok |-> FALSE, description |-> why, start |-> start, end |-> end + 1]

\* what scannerFail and parseError throw
scannerFail(why, start, end) ==
    [ok |-> FALSE, description |-> why, start |-> start, end |-> end]

\* the first character that okayChars does not match, or -1
RECURSIVE FirstIllegal(_, _)
FirstIllegal(input, i) ==
    IF i >= Len(input) THEN -1
    ELSE IF charAt(input, i) \notin okayChars THEN i
    ELSE FirstIllegal(input, i + 1)

checkIntegrity(input) ==
    LET i == FirstIllegal(input, 0)
    IN  IF i = -1 THEN [ok |-> TRUE]
        ELSE scannerFail("Illegal character", i, i + 1)

\* the loop of preliminaryScan, from position i of the text with its EOF marker
RECURSIVE preliminaryScanLoop(_, _, _, _)
preliminaryScanLoop(input, i, variableSet, tokens) ==
    LET curr == charAt(input, i)
    IN  IF curr = EOF
        THEN [ok |-> TRUE,
              tokens |-> Append(tokens, makeIdentityToken(<<curr>>, i)),
              variableSet |-> variableSet]
        ELSE IF isVariableStart(input, i)
        THEN LET variable == tryReadVariableName(input, i)
             IN  preliminaryScanLoop(input, i + Len(variable),
                     scanVariableSet(variable, variableSet),
                     Append(tokens, makeVariableToken(variable, i, i + Len(variable))))
        ELSE IF isOperatorStart(input, i)
        THEN LET token == tryReadOperator(input, i)
             IN  preliminaryScanLoop(input, i + Len(token), variableSet,
                     Append(tokens, makeIdentityToken(token, i)))
        ELSE IF isWhitespace(curr)
        THEN preliminaryScanLoop(input, i + 1, variableSet, tokens)
        ELSE scannerFail("The character " \o curr \o " shouldn't be here.", i, i + 1)

preliminaryScan(input) == preliminaryScanLoop(input \o <<EOF>>, 0, <<>>, <<>>)

\* Array.prototype.sort with the default comparison, on distinct names
RECURSIVE SortInsert(_, _)
SortInsert(sorted, name) ==
    IF sorted = <<>> THEN <<name>>
    ELSE IF StringLess(name, sorted[1]) THEN <<name>> \o sorted
    ELSE <<sorted[1]>> \o SortInsert(Tail(sorted), name)

RECURSIVE sort(_)
sort(names) ==
    IF names = <<>> THEN <<>>
    ELSE SortInsert(sort(SubSeq(names, 1, Len(names) - 1)), names[Len(names)])

\* preliminary.variableSet[name] after the inversion loop of numberVariables
variableSetLookup(variables, name) ==
    IF \E k \in 1..Len(variables) : variables[k] = name
    THEN (CHOOSE k \in 1..Len(variables) : variables[k] = name) - 1
    ELSE ObjectPrototype

numberVariables(preliminary) ==
    LET variables == sort(preliminary.variableSet)
    IN  [ok |-> TRUE,
         tokens |-> [j \in 1..Len(preliminary.tokens) |->
                        IF preliminary.tokens[j].type = "variable"
                        THEN [preliminary.tokens[j] EXCEPT
                                 !.index = variableSetLookup(variables, @)]
                        ELSE preliminary.tokens[j]],
         variables |-> variables]

scan(input) ==
    LET integrity == checkIntegrity(input)
    IN  IF ~integrity.ok THEN integrity
        ELSE LET preliminary == preliminaryScan(input)
             IN  IF ~preliminary.ok THEN preliminary
                 ELSE numberVariables(preliminary)

(***************************************************************************)
(* AST                                                                     *)
(***************************************************************************)
trueNode == [kind |-> "trueNode"]

falseNode == [kind |-> "falseNode"]

negateNode(underlying) == [kind |-> "negateNode", underlying |-> underlying]

andNode(lhs, rhs) == [kind |-> "andNode", lhs |-> lhs, rhs |-> rhs]

orNode(lhs, rhs) == [kind |-> "orNode", lhs |-> lhs, rhs |-> rhs]

impliesNode(lhs, rhs) == [kind |-> "impliesNode", lhs |-> lhs, rhs |-> rhs]

iffNode(lhs, rhs) == [kind |-> "iffNode", lhs |-> lhs, rhs |-> rhs]

variableNode(index) == [kind |-> "variableNode", index |-> index]

\* the value undefined where a node is expected: what Array.prototype.pop
\* returns on an empty array
undefinedNode == [kind |-> "undefined"]

BinaryKinds == {"andNode", "orNode", "impliesNode", "iffNode"}

\* JavaScript values an evaluation produces: the two booleans, undefined (an
\* array read outside the array), and the TypeError of a call on undefined.
JSTrue == "true"

JSFalse == "false"

JSUndefined == "undefined"

JSTypeError == "TypeError"

\* ToBoolean
Truthy(v) == v = JSTrue

\* the operator ! returning its operand
JSNotSame(v) == v

\* the operator !
JSNot(v) == IF Truthy(v) THEN JSFalse ELSE JSTrue

\* array[index]: undefined when index is no index of the array
ArrayRead(array, index) ==
    IF index \in 0..(Len(array) - 1) THEN array[index + 1] ELSE JSUndefined

RECURSIVE evaluate(_, _)
evaluate(node, assignment) ==
    IF node.kind = "trueNode" THEN JSTrue
    ELSE IF node.kind = "falseNode" THEN JSFalse
    ELSE IF node.kind = "negateNode" THEN
        LET u == evaluate(node.underlying, assignment)
        IN  IF u = JSTypeError THEN JSTypeError ELSE JSNot(u)
    ELSE IF node.kind = "andNode" THEN
        \* lhs && rhs
        LET l == evaluate(node.lhs, assignment)
        IN  IF l = JSTypeError \/ ~Truthy(l) THEN l
            ELSE evaluate(node.rhs, assignment)
    ELSE IF node.kind = "orNode" THEN
        \* lhs || rhs
        LET l == evaluate(node.lhs, assignment)
        IN  IF l = JSTypeError \/ Truthy(l) THEN l
            ELSE evaluate(node.rhs, assignment)
    ELSE IF node.kind = "impliesNode" THEN
        \* !lhs || rhs
        LET l == evaluate(node.lhs, assignment)
        IN  IF l = JSTypeError THEN l
            ELSE IF Truthy(JSNot(l)) THEN JSTrue
            ELSE evaluate(node.rhs, assignment)
    ELSE IF node.kind = "iffNode" THEN
        \* lhs === rhs
        LET l == evaluate(node.lhs, assignment)
            r == evaluate(node.rhs, assignment)
        IN  IF l = JSTypeError \/ r = JSTypeError THEN JSTypeError
            ELSE IF l = r THEN JSTrue ELSE JSFalse
    ELSE IF node.kind = "variableNode" THEN ArrayRead(assignment, node.index)
    ELSE JSTypeError

\* the value undefined where a text is expected: a text no input equals
undefinedText == <<"<undefined>">>

\* variables[index]: the name, or undefined when index is no index of the table
VariableName(variables, index) ==
    IF index \in 0..(Len(variables) - 1) THEN variables[index + 1]
    ELSE undefinedText

\* the operand of a string concatenation, as a string
ToStringValue(text) ==
    IF text = undefinedText THEN <<"u","n","d","e","f","i","n","e","d">> ELSE text

\* toString(variables): the HTML text of the node
RECURSIVE toString(_, _)
toString(node, variables) ==
    LET sub(child) == ToStringValue(toString(child, variables))
        bin(op) == <<"(">> \o sub(node.lhs) \o <<" ">> \o op \o <<" ">>
                       \o sub(node.rhs) \o <<")">>
    IN  IF node.kind = "trueNode" THEN <<"&","#","8","8","6","8",";">>
        ELSE IF node.kind = "falseNode" THEN <<"&","#","8","8","6","9",";">>
        ELSE IF node.kind = "negateNode"
            THEN <<"&","n","o","t",";">> \o sub(node.underlying)
        ELSE IF node.kind = "andNode" THEN bin(<<"&","a","n","d",";">>)
        ELSE IF node.kind = "orNode" THEN bin(<<"&","o","r",";">>)
        ELSE IF node.kind = "impliesNode" THEN bin(<<"&","r","a","r","r",";">>)
        ELSE IF node.kind = "iffNode" THEN bin(<<"&","h","a","r","r",";">>)
        ELSE IF node.kind = "variableNode" THEN VariableName(variables, node.index)
        ELSE undefinedText

(***************************************************************************)
(* Parser                                                                  *)
(***************************************************************************)
\* how a piece of the parser ends: normally, by throwing the object
\* {description, start, end} (parseError, scannerFail), or by throwing an
\* Error (assert, unreachable)
Normal == [kind |-> "normal"]

parseError(why, start, end) ==
    [kind |-> "thrown", description |-> why, start |-> start, end |-> end]

unreachable(why) == [kind |-> "crashed", message |-> "Unreachable code: " \o why]

assertFailed(what) == [kind |-> "crashed", message |-> "Assertion failed: " \o what]

isOperand(token) == token.type \in {"T", "F", "variable"}

wrapOperand(token) ==
    IF token.type = "T" THEN trueNode
    ELSE IF token.type = "F" THEN falseNode
    ELSE variableNode(token.index)

isBinaryOperator(token) == token.type \in {"<->", "->", "/\\", "\\/"}

\* priorityOf without its line for <->
HasPriorityButIff(token) == token.type = EOF \/ token.type \in {"->", "/\\", "\\/"}

\* the tokens priorityOf returns a priority for; any other reaches unreachable
HasPriority(token) == token.type = EOF \/ isBinaryOperator(token)

\* priorityOf with the priorities of \/ and /\ exchanged
priorityOfSwapped(token) ==
    IF token.type = EOF THEN -1
    ELSE IF token.type = "<->" THEN 0
    ELSE IF token.type = "->" THEN 1
    ELSE IF token.type = "\\/" THEN 3
    ELSE 2

priorityOf(token) ==
    IF token.type = EOF THEN -1
    ELSE IF token.type = "<->" THEN 0
    ELSE IF token.type = "->" THEN 1
    ELSE IF token.type = "\\/" THEN 2
    ELSE 3

createOperatorNode(lhs, token, rhs) ==
    IF token.type = "<->" THEN iffNode(lhs, rhs)
    ELSE IF token.type = "->" THEN impliesNode(lhs, rhs)
    ELSE IF token.type = "\\/" THEN orNode(lhs, rhs)
    ELSE andNode(lhs, rhs)

topOf(array) == array[Len(array)]

\* a pop that takes two elements off the array
PopRestTwo(array) ==
    IF Len(array) < 2 THEN <<>> ELSE SubSeq(array, 1, Len(array) - 2)

\* Array.prototype.pop: the array without its last element, and that element
\* (undefined when the array is empty)
PopRest(array) == IF array = <<>> THEN <<>> ELSE SubSeq(array, 1, Len(array) - 1)

PopValue(array) == IF array = <<>> THEN undefinedNode ELSE array[Len(array)]

\* endOfInputError without the case of the open parenthesis
endOfInputErrorNoParenthesis(operators) ==
    IF Len(operators) = 0 THEN parseError("", 0, 0)
    ELSE parseError("This operator is missing an operand.",
                    topOf(operators).start, topOf(operators).end)

\* the error of an end of input where an operand is needed
endOfInputError(operators) ==
    IF Len(operators) = 0 THEN parseError("", 0, 0)
    ELSE IF topOf(operators).type = "(" THEN
        parseError("This open parenthesis has no matching close parenthesis.",
                   topOf(operators).start, topOf(operators).end)
    ELSE
        parseError("This operator is missing an operand.",
                   topOf(operators).start, topOf(operators).end)

\* the error of any other token where an operand is needed
operandExpectedError(currToken) ==
    parseError("We were expecting a variable, constant, or open parenthesis here.",
               currToken.start, currToken.end)

\* the error of a token that is no operator where an operand has been read
operatorExpectedError(currToken) ==
    parseError("We were expecting a close parenthesis or a binary connective here.",
               currToken.start, currToken.end)

\* unmatchedCloseError with the span of the whole text read so far
unmatchedCloseErrorFromStart(currToken) ==
    parseError("This close parenthesis doesn't match any open parenthesis.",
               0, currToken.end)

\* the error of a close parenthesis that empties the operator stack
unmatchedCloseError(currToken) ==
    parseError("This close parenthesis doesn't match any open parenthesis.",
               currToken.start, currToken.end)

\* the error of an open parenthesis left on the stack behind the loop
unmatchedOpenError(mismatchedOp) ==
    parseError("No matching close parenthesis for this open parenthesis.",
               mismatchedOp.start, mismatchedOp.end)

\* addOperand leaving the negations on the operator stack
addOperandKeeping(node, operands, operators) ==
    [operands |-> Append(operands, node), operators |-> operators]

\* addOperand popping the negations without negating the node
RECURSIVE addOperandDropping(_, _, _)
addOperandDropping(node, operands, operators) ==
    IF Len(operators) > 0 /\ topOf(operators).type = "~"
    THEN addOperandDropping(node, operands, PopRest(operators))
    ELSE [operands |-> Append(operands, node), operators |-> operators]

RECURSIVE addOperand(_, _, _)
addOperand(node, operands, operators) ==
    IF Len(operators) > 0 /\ topOf(operators).type = "~"
    THEN addOperand(negateNode(node), operands, PopRest(operators))
    ELSE [operands |-> Append(operands, node), operators |-> operators]

\* stopsEvaluation with < for <=
stopsEvaluationStrict(top, currToken) == priorityOf(top) < priorityOf(currToken)

\* the test that ends the loop below: the operator on top of the stack stays
\* there when its priority is not higher than the priority of currToken
stopsEvaluation(top, currToken) == priorityOf(top) <= priorityOf(currToken)

\* the loop that evaluates the operators of higher priority than currToken
RECURSIVE evaluateHigher(_, _, _)
evaluateHigher(operators, operands, currToken) ==
    IF Len(operators) = 0
        THEN [operators |-> operators, operands |-> operands, end |-> Normal]
    ELSE IF topOf(operators).type = "("
        THEN [operators |-> operators, operands |-> operands, end |-> Normal]
    ELSE IF ~HasPriority(topOf(operators))
        THEN [operators |-> operators, operands |-> operands,
              end |-> unreachable("Should never need the priority of "
                                      \o topOf(operators).type)]
    ELSE IF stopsEvaluation(topOf(operators), currToken)
        THEN [operators |-> operators, operands |-> operands, end |-> Normal]
    ELSE LET operator == topOf(operators)
             rhs == PopValue(operands)
             lhs == PopValue(PopRest(operands))
         IN  IF ~isBinaryOperator(operator)
             THEN [operators |-> PopRest(operators),
                   operands |-> PopRest(PopRest(operands)),
                   end |-> unreachable("Should never need to create an operator node from "
                                           \o operator.type)]
             ELSE LET added == addOperand(createOperatorNode(lhs, operator, rhs),
                                          PopRest(PopRest(operands)),
                                          PopRest(operators))
                  IN  evaluateHigher(added.operators, added.operands, currToken)

\* the loop that pops operators until the open parenthesis of currToken
RECURSIVE popToOpenParenthesis(_, _, _)
popToOpenParenthesis(operators, operands, currToken) ==
    IF Len(operators) = 0
        THEN [operators |-> operators, operands |-> operands,
              end |-> unmatchedCloseError(currToken)]
    ELSE LET currOp == topOf(operators)
         IN  IF currOp.type = "("
                 THEN [operators |-> PopRest(operators), operands |-> operands,
                       end |-> Normal]
             ELSE IF currOp.type = "~"
                 THEN [operators |-> PopRest(operators), operands |-> operands,
                       end |-> parseError("Nothing is negated by this operator.",
                                          currOp.start, currOp.end)]
             ELSE IF ~isBinaryOperator(currOp)
                 THEN [operators |-> PopRest(operators),
                       operands |-> PopRest(PopRest(operands)),
                       end |-> unreachable("Should never need to create an operator node from "
                                               \o currOp.type)]
             ELSE LET rhs == PopValue(operands)
                      lhs == PopValue(PopRest(operands))
                      added == addOperand(createOperatorNode(lhs, currOp, rhs),
                                          PopRest(PopRest(operands)),
                                          PopRest(operators))
                  IN  popToOpenParenthesis(added.operators, added.operands, currToken)

\* The state of one call of parse: where it is (pc), its locals, and how it
\* ended.  pc is "loop" before the iteration for tokens[i], "after" behind the
\* loop, "returned" after the return, "thrown" after a {description, start,
\* end} was thrown, "crashed" after an Error was thrown.
NoError == [description |-> "", start |-> -1, end |-> -1]

Ended(st, end) ==
    IF end.kind = "thrown"
    THEN [st EXCEPT !.pc = "thrown",
                    !.thrown = [description |-> end.description,
                                start |-> end.start, end |-> end.end]]
    ELSE [st EXCEPT !.pc = "crashed", !.crash = end.message]

\* parse, up to its loop: the scan and the initial locals
parseBegin(input) ==
    LET scanResult == scan(input)
        st == [pc |-> "loop", tokens |-> <<>>, variables |-> <<>>,
               operators |-> <<>>, operands |-> <<>>, needOperand |-> TRUE,
               i |-> 0, ast |-> undefinedNode, thrown |-> NoError, crash |-> ""]
    IN  IF scanResult.ok
        THEN [st EXCEPT !.tokens = scanResult.tokens,
                        !.variables = scanResult.variables]
        ELSE [st EXCEPT !.pc = "thrown",
                        !.thrown = [description |-> scanResult.description,
                                    start |-> scanResult.start,
                                    end |-> scanResult.end]]

\* one iteration of the loop of parse, for tokens[i]
parseIteration(st) ==
    IF st.i >= Len(st.tokens) THEN [st EXCEPT !.pc = "after"]
    ELSE
    LET currToken == st.tokens[st.i + 1]
        next == [st EXCEPT !.i = st.i + 1]
    IN  IF st.needOperand THEN
            IF isOperand(currToken) THEN
                LET added == addOperand(wrapOperand(currToken), st.operands, st.operators)
                IN  [next EXCEPT !.operands = added.operands,
                                 !.operators = added.operators,
                                 !.needOperand = FALSE]
            ELSE IF currToken.type = "(" \/ currToken.type = "~" THEN
                [next EXCEPT !.operators = Append(st.operators, currToken)]
            ELSE IF currToken.type = EOF THEN
                Ended(st, endOfInputError(st.operators))
            ELSE
                Ended(st, operandExpectedError(currToken))
        ELSE
            IF isBinaryOperator(currToken) \/ currToken.type = EOF THEN
                LET r == evaluateHigher(st.operators, st.operands, currToken)
                    pushed == [next EXCEPT !.operators = Append(r.operators, currToken),
                                           !.operands = r.operands,
                                           !.needOperand = TRUE]
                IN  IF r.end.kind # "normal"
                        THEN Ended([st EXCEPT !.operators = r.operators,
                                              !.operands = r.operands], r.end)
                    ELSE IF currToken.type = EOF THEN [pushed EXCEPT !.pc = "after"]
                    ELSE pushed
            ELSE IF currToken.type = ")" THEN
                LET r == popToOpenParenthesis(st.operators, st.operands, currToken)
                    expr == PopValue(r.operands)
                    added == addOperand(expr, PopRest(r.operands), r.operators)
                IN  IF r.end.kind # "normal"
                        THEN Ended([st EXCEPT !.operators = r.operators,
                                              !.operands = r.operands], r.end)
                    ELSE [next EXCEPT !.operators = added.operators,
                                      !.operands = added.operands]
            ELSE
                Ended(st, operatorExpectedError(currToken))

\* parse, behind its loop: the checks of the stack and the return
parseEnd(st) ==
    IF Len(st.operators) = 0 THEN
        Ended(st, assertFailed("No operators on the operator stack (logic error in parser?)"))
    ELSE IF topOf(st.operators).type # EOF THEN
        Ended([st EXCEPT !.operators = PopRest(st.operators)],
              assertFailed("Stack top is not EOF (logic error in parser?)"))
    ELSE
    LET operators == PopRest(st.operators)
    IN  IF Len(operators) # 0 THEN
            LET mismatchedOp == topOf(operators)
                popped == [st EXCEPT !.operators = PopRest(operators)]
            IN  IF mismatchedOp.type # "(" THEN
                    Ended(popped, assertFailed(
                        "Somehow missed an operator factoring in EOF (logic error in parser?)"))
                ELSE
                    Ended(popped, unmatchedOpenError(mismatchedOp))
        ELSE [st EXCEPT !.pc = "returned",
                        !.operators = operators,
                        !.ast = PopValue(st.operands),
                        !.operands = PopRest(st.operands)]

parseStep(st) ==
    IF st.pc = "loop" THEN parseIteration(st)
    ELSE IF st.pc = "after" THEN parseEnd(st)
    ELSE st

RECURSIVE parseRun(_)
parseRun(st) ==
    IF st.pc \in {"returned", "thrown", "crashed"} THEN st
    ELSE parseRun(parseStep(st))

\* parse(input): the state in which the call ends
parse(input) == parseRun(parseBegin(input))

(***************************************************************************)
(* One call of parse, iteration by iteration                               *)
(***************************************************************************)
VARIABLES
    input,        \* the text of the form's field; the argument of parse
    sentences,    \* the collection of formula records
    pc, tokens, variables, operators, operands, needOperand, i,
                  \* the position and the locals of the call of parse
    ast,          \* the root the call returned
    thrown,       \* the {description, start, end} the call threw
    crash         \* the message of the Error the call threw

vars == <<input, sentences, pc, tokens, variables, operators, operands,
          needOperand, i, ast, thrown, crash>>

\* The texts of the field that the calls of parse are given: every text of at
\* most MaxLexemes lexemes, every infix chain of at most MaxOperators binary
\* operators between variables and the constant F, texts with a character
\* that begins no token, and negated parenthesised texts.
MaxLexemes == 4

MaxOperators == 2

Lexemes ==
    {<<"p">>, <<"q">>, ProtoName, <<"T">>,
     <<" ","a","n","d"," ">>, <<"-",">">>, <<"~">>, <<"(">>, <<")">>}

ChainOperands == {<<"p">>, <<"q">>, <<"r">>, <<"F">>}

ChainOperators ==
    {<<" ","a","n","d"," ">>, <<" ","o","r"," ">>, <<"-",">">>, <<"<","-",">">>}

\* a1 o1 a2 o2 ... ok a(k+1)
Chain(as, os) ==
    Concat([n \in 1..(2 * Len(os) + 1) |->
               IF n % 2 = 1 THEN as[(n + 1) \div 2] ELSE os[n \div 2]])

FreeInputs == {Concat(ls) : ls \in UNION {[1..k -> Lexemes] : k \in 0..MaxLexemes}}

ChainInputs ==
    UNION {{Chain(as, os) : as \in [1..(k + 1) -> ChainOperands],
                            os \in [1..k -> ChainOperators]} : k \in 1..MaxOperators}

\* a character that begins no token, alone or next to other text
StrayChars == {"#", "$", ";", "&", "|", "=", "-", "<", "/", "\\", "1"}

StrayInputs ==
    {b \o <<c>> \o a : b \in {<<>>, <<"p", " ">>, <<"(">>},
                       c \in StrayChars,
                       a \in {<<>>, <<" ", "q">>, <<"#">>}}

\* negations before a parenthesised binary operator
NegatedInputs ==
    {n1 \o <<"(">> \o n2 \o <<"p">> \o o \o n3 \o <<"q">> \o <<")">> \o rest :
         n1 \in {<<"~">>, <<"~", "~">>},
         n2 \in {<<>>, <<"~">>},
         n3 \in {<<>>, <<"~">>},
         o \in {<<" ","a","n","d"," ">>, <<"-",">">>},
         rest \in {<<>>, <<"-",">","r">>, <<" ","a","n","d"," ","r">>}}

Inputs == FreeInputs \cup ChainInputs \cup StrayInputs \cup NegatedInputs

\* the locals of a call that has not begun
Idle ==
    [pc |-> "idle", tokens |-> <<>>, variables |-> <<>>, operators |-> <<>>,
     operands |-> <<>>, needOperand |-> TRUE, i |-> 0, ast |-> undefinedNode,
     thrown |-> NoError, crash |-> ""]

Locals ==
    [pc |-> pc, tokens |-> tokens, variables |-> variables,
     operators |-> operators, operands |-> operands,
     needOperand |-> needOperand, i |-> i, ast |-> ast, thrown |-> thrown,
     crash |-> crash]

Becomes(st) ==
    /\ pc' = st.pc
    /\ tokens' = st.tokens
    /\ variables' = st.variables
    /\ operators' = st.operators
    /\ operands' = st.operands
    /\ needOperand' = st.needOperand
    /\ i' = st.i
    /\ ast' = st.ast
    /\ thrown' = st.thrown
    /\ crash' = st.crash

Init ==
    /\ input \in Inputs
    /\ sentences = <<>>
    /\ pc = "idle" /\ tokens = <<>> /\ variables = <<>> /\ operators = <<>>
    /\ operands = <<>> /\ needOperand = TRUE /\ i = 0 /\ ast = undefinedNode
    /\ thrown = NoError /\ crash = ""

ParseBegin ==
    /\ pc = "idle"
    /\ Becomes(parseBegin(input))
    /\ UNCHANGED <<input, sentences>>

ParseIteration ==
    /\ pc = "loop"
    /\ Becomes(parseIteration(Locals))
    /\ UNCHANGED <<input, sentences>>

ParseEnd ==
    /\ pc = "after"
    /\ Becomes(parseEnd(Locals))
    /\ UNCHANGED <<input, sentences>>

Next == ParseBegin \/ ParseIteration \/ ParseEnd

Spec == Init /\ [][Next]_vars

(***************************************************************************)
(* The classifier and the joint checker                                    *)
(***************************************************************************)
\* Math.pow(2, k)
RECURSIVE Pow2(_)
Pow2(k) == IF k <= 0 THEN 1 ELSE 2 * Pow2(k - 1)

\* variable 0 varies fastest
LogicTypeAssignmentsLsbFirst(n) ==
    [row \in 1..Pow2(n) |->
        [col \in 1..n |->
            LET mod == Pow2(col)
            IN  IF (row - 1) % mod < mod \div 2 THEN JSTrue ELSE JSFalse]]

\* the assignments that getLogicType builds for n variables
LogicTypeAssignments(n) ==
    [row \in 1..Pow2(n) |->
        [col \in 1..n |->
            LET mod == Pow2(n - (col - 1))
            IN  IF (row - 1) % mod < mod \div 2 THEN JSTrue ELSE JSFalse]]

\* the assignments that TruthTable builds for n variables
TruthTableAssignments(n) ==
    [row \in 1..Pow2(n) |->
        [col \in 1..n |->
            LET mod == Pow2(n - (col - 1))
            IN  IF (row - 1) % mod < mod \div 2 THEN JSTrue ELSE JSFalse]]

\* the assignments that getJointType (and JointTable) builds for n variables
JointTypeAssignments(n) ==
    [row \in 1..Pow2(n) |->
        [col \in 1..n |->
            LET mod == Pow2(n - (col - 1))
            IN  IF (row - 1) % mod < mod \div 2 THEN JSTrue ELSE JSFalse]]

\* 0 Tautologia, 1 Contingencia, 2 Contradiccion
getLogicType(s) ==
    LET n == Len(s.vars)
        assignments == LogicTypeAssignments(n)
        Tfound == \E a \in 1..Len(assignments) : Truthy(evaluate(s.node, assignments[a]))
        Ffound == \E a \in 1..Len(assignments) : ~Truthy(evaluate(s.node, assignments[a]))
    IN  IF Tfound THEN (IF Ffound THEN 1 ELSE 0) ELSE 2

\* the names of the records' tables, each once, in the order they are first seen
RECURSIVE JointVars(_, _)
JointVars(names, seen) ==
    IF names = <<>> THEN seen
    ELSE IF \E k \in 1..Len(seen) : seen[k] = names[1]
        THEN JointVars(Tail(names), seen)
    ELSE JointVars(Tail(names), Append(seen, names[1]))

RECURSIVE AllVars(_)
AllVars(ss) == IF ss = <<>> THEN <<>> ELSE ss[1].vars \o AllVars(Tail(ss))

\* varDic[v]
varDic(jointVars, v) == (CHOOSE k \in 1..Len(jointVars) : jointVars[k] = v) - 1

\* every record reads the row by position
jointAssignmentPositional(record, jointVars, row) ==
    [k \in 1..Len(record.vars) |-> ArrayRead(row, k - 1)]

\* the assignment of one record under row j of the joint assignments
jointAssignment(record, jointVars, row) ==
    [k \in 1..Len(record.vars) |-> ArrayRead(row, varDic(jointVars, record.vars[k]))]

\* getJointType with trueRowFound = n.node.evaluate(assignment): the verdict
\* of the last record alone
getJointTypeOfLast(ss) ==
    IF Len(ss) = 0 THEN 1
    ELSE LET jointVars == JointVars(AllVars(ss), <<>>)
             assignments == JointTypeAssignments(Len(jointVars))
             trueRowFound(j) ==
                 Truthy(evaluate(ss[Len(ss)].node,
                                 jointAssignment(ss[Len(ss)], jointVars, assignments[j])))
             sat == \E j \in 1..Len(assignments) : trueRowFound(j)
         IN  IF sat THEN 0 ELSE 2

\* 0 satisfiable together, 1 no records, 2 not satisfiable together
getJointType(ss) ==
    IF Len(ss) = 0 THEN 1
    ELSE LET jointVars == JointVars(AllVars(ss), <<>>)
             assignments == JointTypeAssignments(Len(jointVars))
             trueRowFound(j) ==
                 \A k \in 1..Len(ss) :
                     Truthy(evaluate(ss[k].node,
                                     jointAssignment(ss[k], jointVars, assignments[j])))
             sat == \E j \in 1..Len(assignments) : trueRowFound(j)
         IN  IF sat THEN 0 ELSE 2

(***************************************************************************)
(* The truth table of a record                                             *)
(***************************************************************************)
\* the loop over the queue: ssnodes, the nodes that get a column
RECURSIVE truthTableWalk(_, _)
truthTableWalk(queue, ssnodes) ==
    IF queue = <<>> THEN ssnodes
    ELSE LET n == Head(queue)
             rest == Tail(queue)
         IN  IF n.kind = "variableNode" THEN truthTableWalk(rest, ssnodes)
             ELSE IF n.kind \in BinaryKinds
                 THEN truthTableWalk(rest \o <<n.rhs, n.lhs>>, Append(ssnodes, n))
             ELSE IF n.kind = "negateNode"
                 THEN truthTableWalk(Append(rest, n.underlying), Append(ssnodes, n))
             ELSE truthTableWalk(rest, Append(ssnodes, n))

ssnodesOf(sentence) == truthTableWalk(<<sentence.node>>, <<>>)

\* the table: the cells of the header, and the rows of values
TruthTable(sentence) ==
    LET assignments == TruthTableAssignments(Len(sentence.vars))
        ssnodes == ssnodesOf(sentence)
        ss == [k \in 1..Len(ssnodes) |-> toString(ssnodes[k], sentence.vars)]
        tv == [j \in 1..Len(assignments) |->
                  [k \in 1..Len(ssnodes) |-> evaluate(ssnodes[k], assignments[j])]]
    IN  [header |-> sentence.vars \o ss,
         rows |-> [j \in 1..Len(assignments) |-> assignments[j] \o tv[j]]]

(***************************************************************************)
(* The form and the list                                                   *)
(***************************************************************************)
\* the longest collection
MaxSentences == 2

\* 'Error en la proposición'
ErrorText ==
    <<"E","r","r","o","r"," ","e","n"," ","l","a"," ",
      "p","r","o","p","o","s","i","c","i","<U+00F3>","n">>

Text_p_and_q_or_p_and_q ==
    <<"(","p"," ","a","n","d"," ","q",")"," ","o","r"," ",
      "(","p"," ","a","n","d"," ","q",")">>

\* the texts typed into the field: variables, constants, a negation, one
\* binary operator between two operands, an unfinished text, and a text with
\* the same subexpression twice
TypedInputs ==
    {<<"p">>, <<"r">>, <<"T">>, <<"F">>, <<"~","p">>, ProtoName, <<"(","p">>,
     <<"p"," ","a","n","d"," ","p">>, <<"p"," ","a","n","d"," ","q">>,
     <<"p","-",">","p">>, <<"p","-",">","F">>, <<"q","-",">","F">>,
     Text_p_and_q_or_p_and_q}

InitApp ==
    /\ input = <<>>
    /\ sentences = <<>>
    /\ pc = "idle" /\ tokens = <<>> /\ variables = <<>> /\ operators = <<>>
    /\ operands = <<>> /\ needOperand = TRUE /\ i = 0 /\ ast = undefinedNode
    /\ thrown = NoError /\ crash = ""

parseLocals == <<pc, tokens, variables, operators, operands, needOperand, i,
                 ast, thrown, crash>>

\* onChange of the field
setInput(text) ==
    /\ input' = text
    /\ UNCHANGED <<sentences, parseLocals>>

\* the record handleSubmit builds: input.plain is a property of a string
\* that no string has
newSentence(output) ==
    [plain |-> undefinedText,
     format |-> toString(output.ast, output.variables),
     node |-> output.ast,
     vars |-> output.variables]

\* handleSubmit storing a record of the failed call too
handleSubmitStoresFailure ==
    LET output == parse(input)
    IN  IF output.pc # "returned" /\ Len(sentences) < MaxSentences
        THEN /\ input' = ErrorText
             /\ sentences' = Append(sentences, newSentence(output))
             /\ UNCHANGED parseLocals
        ELSE IF output.pc # "returned"
        THEN /\ input' = ErrorText
             /\ UNCHANGED <<sentences, parseLocals>>
        ELSE /\ Len(sentences) < MaxSentences
             /\ sentences' = Append(sentences, newSentence(output))
             /\ input' = <<>>
             /\ UNCHANGED parseLocals

handleSubmit ==
    LET output == parse(input)
    IN  IF output.pc # "returned"
        THEN /\ input' = ErrorText
             /\ UNCHANGED <<sentences, parseLocals>>
        ELSE /\ Len(sentences) < MaxSentences
             /\ sentences' = Append(sentences, newSentence(output))
             /\ input' = <<>>
             /\ UNCHANGED parseLocals

\* splice(index): the records from index on are all removed
removeSentenceFrom(index) ==
    /\ sentences' = SubSeq(sentences, 1, index)
    /\ UNCHANGED <<input, parseLocals>>

\* splice(index, 1)
removeSentence(index) ==
    /\ sentences' = SubSeq(sentences, 1, index) \o
                    SubSeq(sentences, index + 2, Len(sentences))
    /\ UNCHANGED <<input, parseLocals>>

NextApp ==
    \/ \E text \in TypedInputs : setInput(text)
    \/ handleSubmit
    \/ \E index \in 0..(Len(sentences) - 1) : removeSentence(index)

SpecApp == InitApp /\ [][NextApp]_vars

(***************************************************************************)
(* Properties of a call of parse                                           *)
(***************************************************************************)
CallEnded == pc \in {"returned", "thrown", "crashed"}

\* the precedence table of the specification: iff < implies < or < and
Rank(type) ==
    CASE type = "<->" -> 0
      [] type = "->" -> 1
      [] type = "\\/" -> 2
      [] type = "/\\" -> 3

\* the node the specification names for a binary operator and for an operand
NodeOf(type, lhs, rhs) ==
    [kind |-> CASE type = "<->" -> "iffNode"
                [] type = "->" -> "impliesNode"
                [] type = "\\/" -> "orNode"
                [] type = "/\\" -> "andNode",
     lhs |-> lhs, rhs |-> rhs]

LeafOf(token) ==
    CASE token.type = "T" -> [kind |-> "trueNode"]
      [] token.type = "F" -> [kind |-> "falseNode"]
      [] token.type = "variable" -> [kind |-> "variableNode", index |-> token.index]

OperandTypes == {"T", "F", "variable"}

BinaryTypes == {"<->", "->", "\\/", "/\\"}

\* the tokens are a1 o1 a2 o2 ... ok a(k+1) and the end of input, k >= 1
IsChain(ts) ==
    /\ Len(ts) >= 4
    /\ Len(ts) % 2 = 0
    /\ ts[Len(ts)].type = EOF
    /\ \A n \in 1..(Len(ts) - 1) :
          IF n % 2 = 1 THEN ts[n].type \in OperandTypes
          ELSE ts[n].type \in BinaryTypes

\* a(n) o (a(n+1) o (... o a(k+1))), for the chain from its operand at n
RECURSIVE RightNested(_, _)
RightNested(ts, n) ==
    IF n + 1 >= Len(ts) THEN LeafOf(ts[n])
    ELSE NodeOf(ts[n + 1].type, LeafOf(ts[n]), RightNested(ts, n + 2))

Text_p_implies_q_implies_r == <<"p", "-", ">", "q", "-", ">", "r">>

\* C1 (as stated): two binary operators of equal precedence group
\* left-to-right: a op b op c yields op(op(a, b), c).
C1_LeftToRight ==
    (/\ pc = "returned"
     /\ IsChain(tokens)
     /\ Len(tokens) = 6
     /\ Rank(tokens[2].type) = Rank(tokens[4].type))
    => ast = NodeOf(tokens[4].type,
                    NodeOf(tokens[2].type, LeafOf(tokens[1]), LeafOf(tokens[3])),
                    LeafOf(tokens[5]))

\* C1 (amended): binary operators of equal precedence group right-to-left:
\* a op b op c yields op(a, op(b, c)), and a longer chain of operators of one
\* precedence nests to the right in the same way.
C1_RightToLeft ==
    (/\ pc = "returned"
     /\ IsChain(tokens)
     /\ \A n \in 1..(Len(tokens) - 1) :
           n % 2 = 0 => Rank(tokens[n].type) = Rank(tokens[2].type))
    => ast = RightNested(tokens, 1)

C1_Witness ==
    /\ pc = "returned"
    /\ input = Text_p_implies_q_implies_r
    /\ ast = impliesNode(variableNode(0),
                         impliesNode(variableNode(1), variableNode(2)))

Text_p_or_q_and_r == <<"p", " ", "o", "r", " ", "q", " ", "a", "n", "d", " ", "r">>

\* C2: of two binary operators of different precedence (iff < implies < or <
\* and) the one of higher precedence binds tighter, whichever comes first:
\* a op1 b op2 c is op1(a, op2(b, c)) when op2 is higher and op2(op1(a, b), c)
\* when op1 is higher.
C2_Precedence ==
    (/\ pc = "returned"
     /\ IsChain(tokens)
     /\ Len(tokens) = 6
     /\ Rank(tokens[2].type) # Rank(tokens[4].type))
    => ast = IF Rank(tokens[4].type) > Rank(tokens[2].type)
             THEN NodeOf(tokens[2].type,
                         LeafOf(tokens[1]),
                         NodeOf(tokens[4].type, LeafOf(tokens[3]), LeafOf(tokens[5])))
             ELSE NodeOf(tokens[4].type,
                         NodeOf(tokens[2].type, LeafOf(tokens[1]), LeafOf(tokens[3])),
                         LeafOf(tokens[5]))

C2_Witness ==
    /\ pc = "returned"
    /\ input = Text_p_or_q_and_r
    /\ ast = orNode(variableNode(0), andNode(variableNode(1), variableNode(2)))

\* every assignment of n variables
Assignments(n) == [1..n -> {JSTrue, JSFalse}]

\* C3: round trip: after a successful parse, parsing the formatted text
\* ast.toString(variables) succeeds too, and its AST has the value of the
\* original under every assignment of the variables.
C3_RoundTrip ==
    pc = "returned"
    => LET again == parse(toString(ast, variables))
       IN  /\ again.pc = "returned"
           /\ \A a \in Assignments(Len(variables)) :
                 evaluate(again.ast, a) = evaluate(ast, a)

\* the positions of the open parentheses not closed among the first n tokens,
\* outermost first
RECURSIVE OpenAt(_, _)
OpenAt(ts, n) ==
    IF n = 0 THEN <<>>
    ELSE LET before == OpenAt(ts, n - 1)
         IN  IF ts[n].type = "(" THEN Append(before, n)
             ELSE IF ts[n].type = ")" /\ before # <<>>
                 THEN SubSeq(before, 1, Len(before) - 1)
             ELSE before

Unclosed(ts) == OpenAt(ts, Len(ts))

\* the text ends right after a binary operator or a negation
EndsAfterOperator(ts) ==
    Len(ts) >= 2 /\ ts[Len(ts) - 1].type \in BinaryTypes \cup {"~"}

\* the call threw nothing before it came to the end of the input
ReachedEndOfInput == i >= Len(tokens) - 1

Span(token) == <<token.start, token.end>>

MissingOperandMessage == "This operator is missing an operand."

UnmatchedOpenMessages ==
    {"This open parenthesis has no matching close parenthesis.",
     "No matching close parenthesis for this open parenthesis."}

Text_p_and == <<"p", " ", "a", "n", "d", " ">>

\* C4 (as stated): an input that ends right after an operator fails with the
\* operator-missing-operand error at exactly that operator; an input with an
\* open parenthesis that is never closed fails with an unmatched-open-
\* parenthesis error at exactly that parenthesis; neither returns an AST.
C4_AsStated ==
    (CallEnded /\ tokens # <<>>)
    => /\ EndsAfterOperator(tokens)
          => /\ pc = "thrown"
             /\ thrown.description = MissingOperandMessage
             /\ <<thrown.start, thrown.end>> = Span(tokens[Len(tokens) - 1])
       /\ Unclosed(tokens) # <<>>
          => /\ pc = "thrown"
             /\ thrown.description \in UnmatchedOpenMessages
             /\ \E k \in 1..Len(Unclosed(tokens)) :
                   <<thrown.start, thrown.end>> = Span(tokens[Unclosed(tokens)[k]])

\* C4 (amended): when no earlier token is rejected, an input that ends right
\* after an operator fails with the operator-missing-operand error at exactly
\* that operator, and an input with an unclosed open parenthesis that does not
\* end right after an operator fails with an unmatched-open-parenthesis error
\* at exactly the innermost unclosed parenthesis; neither returns an AST.
C4_AtEndOfInput ==
    (CallEnded /\ tokens # <<>> /\ ReachedEndOfInput)
    => /\ EndsAfterOperator(tokens)
          => /\ pc = "thrown"
             /\ ast = undefinedNode
             /\ thrown.description = MissingOperandMessage
             /\ <<thrown.start, thrown.end>> = Span(tokens[Len(tokens) - 1])
       /\ (~EndsAfterOperator(tokens) /\ Unclosed(tokens) # <<>>)
          => /\ pc = "thrown"
             /\ ast = undefinedNode
             /\ thrown.description \in UnmatchedOpenMessages
             /\ <<thrown.start, thrown.end>> =
                    Span(tokens[Unclosed(tokens)[Len(Unclosed(tokens))]])

C4_Witness ==
    /\ pc = "thrown"
    /\ input = Text_p_and
    /\ thrown = [description |-> MissingOperandMessage, start |-> 2, end |-> 5]

\* the close parentheses with no open parenthesis before them to match
UnmatchedCloses(ts) ==
    {n \in 1..Len(ts) : ts[n].type = ")" /\ OpenAt(ts, n - 1) = <<>>}

FirstUnmatchedClose(ts) ==
    CHOOSE n \in UnmatchedCloses(ts) : \A m \in UnmatchedCloses(ts) : n <= m

UnmatchedCloseMessage == "This close parenthesis doesn't match any open parenthesis."

OperandExpectedMessage ==
    "We were expecting a variable, constant, or open parenthesis here."

Text_p_close == <<"p", ")">>

\* C5 (as stated): a close parenthesis with no matching open parenthesis
\* before it always makes parse fail with the unmatched-close-parenthesis
\* error at that parenthesis.
C5_AsStated ==
    (CallEnded /\ tokens # <<>> /\ UnmatchedCloses(tokens) # {})
    => /\ pc = "thrown"
       /\ thrown.description = UnmatchedCloseMessage
       /\ \E n \in UnmatchedCloses(tokens) :
             <<thrown.start, thrown.end>> = Span(tokens[n])

\* C5 (amended): when no earlier token is rejected, the first close
\* parenthesis with no matching open parenthesis makes parse fail at exactly
\* that parenthesis: with the unmatched-close-parenthesis error when it
\* directly follows an operand or a close parenthesis, and with the error
\* that an operand was expected otherwise (as for ")" alone).
C5_AtUnmatchedClose ==
    (/\ CallEnded
     /\ tokens # <<>>
     /\ UnmatchedCloses(tokens) # {}
     /\ i >= FirstUnmatchedClose(tokens) - 1)
    => LET n == FirstUnmatchedClose(tokens)
       IN  /\ pc = "thrown"
           /\ ast = undefinedNode
           /\ <<thrown.start, thrown.end>> = Span(tokens[n])
           /\ thrown.description =
                 IF n > 1 /\ tokens[n - 1].type \in OperandTypes \cup {")"}
                 THEN UnmatchedCloseMessage
                 ELSE OperandExpectedMessage

C5_Witness ==
    /\ pc = "thrown"
    /\ input = Text_p_close
    /\ thrown = [description |-> UnmatchedCloseMessage, start |-> 1, end |-> 2]

\* the leaves of a tree from left to right
RECURSIVE Leaves(_)
Leaves(node) ==
    IF node.kind \in BinaryKinds THEN Leaves(node.lhs) \o Leaves(node.rhs)
    ELSE IF node.kind = "negateNode" THEN Leaves(node.underlying)
    ELSE <<node>>

\* the operand tokens from left to right
OperandTokens(ts) == SelectSeq(ts, LAMBDA t : t.type \in OperandTypes)

\* the text a token was read from
Written(token) == substring(input, token.start, token.end)

\* C9: after a successful parse the variable table is sorted ascending without
\* duplicates and holds exactly the names that occur in the input; every
\* Var(index) of the AST has 0 <= index < the table's length, and table[index]
\* is the name written at that leaf's place in the input.
C9_VariableTable ==
    pc = "returned"
    => /\ \A k \in 1..(Len(variables) - 1) :
             StringLess(variables[k], variables[k + 1])
       /\ {variables[k] : k \in 1..Len(variables)} =
             {Written(tokens[n]) : n \in {m \in 1..Len(tokens) : tokens[m].type = "variable"}}
       /\ Len(Leaves(ast)) = Len(OperandTokens(tokens))
       /\ \A k \in 1..Len(Leaves(ast)) :
             Leaves(ast)[k].kind = "variableNode"
             => /\ OperandTokens(tokens)[k].type = "variable"
                /\ Leaves(ast)[k].index \in 0..(Len(variables) - 1)
                /\ variables[Leaves(ast)[k].index + 1] = Written(OperandTokens(tokens)[k])

(***************************************************************************)
(* The spellings of the operators                                          *)
(***************************************************************************)
\* the table of section 6 of the specification: the spellings of each token
\* type
SpelledTypes == {"~", "/\\", "\\/", "->", "<->", "T", "F", "(", ")"}

Spellings(type) ==
    CASE type = "~" ->
            {<<"~">>,
             <<"!">>,
             <<"n","o","t">>,
             <<"<U+00AC>">>,
             <<"\\","l","n","o","t">>,
             <<"\\","n","e","g">>}
      [] type = "/\\" ->
            {<<"/","\\">>,
             <<"&","&">>,
             <<"a","n","d">>,
             <<"^">>,
             <<"<U+2227>">>,
             <<"\\","l","a","n","d">>,
             <<"\\","w","e","d","g","e">>}
      [] type = "\\/" ->
            {<<"\\","/">>,
             <<"|","|">>,
             <<"o","r">>,
             <<"<U+2228>">>,
             <<"\\","l","o","r">>,
             <<"\\","v","e","e">>}
      [] type = "->" ->
            {<<"-",">">>,
             <<"=",">">>,
             <<"i","m","p","l","i","e","s">>,
             <<"<U+2192>">>,
             <<"\\","t","o">>,
             <<"\\","r","i","g","h","t","a","r","r","o","w">>,
             <<"\\","R","i","g","h","t","a","r","r","o","w">>}
      [] type = "<->" ->
            {<<"<","-",">">>,
             <<"<","=",">">>,
             <<"i","f","f">>,
             <<"<U+2194>">>,
             <<"\\","l","e","f","t","r","i","g","h","t","a","r","r","o","w">>,
             <<"\\","L","e","f","t","r","i","g","h","t","a","r","r","o","w">>}
      [] type = "T" ->
            {<<"T">>,
             <<"t","r","u","e">>,
             <<"<U+22A4>">>,
             <<"\\","t","o","p">>}
      [] type = "F" ->
            {<<"F">>,
             <<"f","a","l","s","e">>,
             <<"<U+22A5>">>,
             <<"\\","b","o","t">>}
      [] type = "(" ->
            {<<"(">>}
      [] type = ")" ->
            {<<")">>}

\* what stands before and behind the spelling in the texts of SpecScan
Befores == {<<>>, <<"p", " ">>, <<"p">>, <<"(">>}

Afters == {<<>>, <<" ", "q">>, <<"p">>, <<")">>}

\* whitespace or nothing next to the spelling
DelimitedBefores == {b \in Befores : b = <<>> \/ b[Len(b)] \in WhitespaceChars}

DelimitedAfters == {a \in Afters : a = <<>> \/ a[1] \in WhitespaceChars}

SpellingInputs ==
    {b \o w \o a : b \in Befores, a \in Afters,
                   w \in UNION {Spellings(type) : type \in SpelledTypes}}

InitScan ==
    /\ input \in SpellingInputs
    /\ sentences = <<>>
    /\ pc = "idle" /\ tokens = <<>> /\ variables = <<>> /\ operators = <<>>
    /\ operands = <<>> /\ needOperand = TRUE /\ i = 0 /\ ast = undefinedNode
    /\ thrown = NoError /\ crash = ""

SpecScan == InitScan /\ [][Next]_vars

\* the token types of a scan, none when the scan fails
TypesOf(ts) == [n \in 1..Len(ts) |-> ts[n].type]

ScannedTypes(text) ==
    LET r == scan(text) IN IF r.ok THEN TypesOf(r.tokens) ELSE <<>>

\* alone, the spelling w is one token of the type, from its first character
\* to its last
OneToken(w, type) ==
    LET r == scan(w)
    IN  /\ r.ok
        /\ r.tokens = <<[type |-> type, start |-> 0, end |-> Len(w)],
                        [type |-> EOF, start |-> Len(w), end |-> Len(w) + 1]>>

\* the tokens of the scanned text b w a, w a spelling of the type, keep their
\* types when another spelling of the type takes the place of w
SameTypesForAll(b, a, type) ==
    \A w \in Spellings(type) :
        input = b \o w \o a
        => /\ OneToken(w, type)
           /\ \A other \in Spellings(type) :
                 ScannedTypes(b \o other \o a) = TypesOf(tokens)

Scanned == pc # "idle" /\ i = 0 /\ (pc = "thrown" => tokens = <<>>)

\* C10 (as stated): every spelling of the table is scanned as one token of its
\* type, and replacing a spelling by another spelling of the same operator
\* never changes the sequence of token types.
C10_AsStated ==
    Scanned
    => \A b \in Befores, a \in Afters, type \in SpelledTypes :
          SameTypesForAll(b, a, type)

\* C10 (amended): every spelling of the table is scanned as one token of its
\* type, and replacing a spelling that has whitespace or an end of the text on
\* either side by another spelling of the same operator never changes the
\* sequence of token types.
C10_Delimited ==
    Scanned
    => \A b \in DelimitedBefores, a \in DelimitedAfters, type \in SpelledTypes :
          SameTypesForAll(b, a, type)

Text_p_Leftrightarrow_q ==
    <<"p", " ", "\\", "L", "e", "f", "t", "r", "i", "g", "h", "t", "a", "r", "r", "o", "w",
      " ", "q">>

C10_Witness ==
    /\ pc = "loop"
    /\ i = 0
    /\ input = Text_p_Leftrightarrow_q
    /\ TypesOf(tokens) = <<"variable", "<->", "variable", EOF>>

(***************************************************************************)
(* Properties of the classifier, the joint checker and the assignments     *)
(***************************************************************************)
Booleans == {JSTrue, JSFalse}

\* every assignment of n variables
AllAssignments(n) == [1..n -> Booleans]

Records == {sentences[k] : k \in 1..Len(sentences)}

\* the values of the record's root over every assignment of its variables
ValuesOf(s) == {evaluate(s.node, a) : a \in AllAssignments(Len(s.vars))}

ClassifiedAsStated(s) ==
    /\ getLogicType(s) = 0 <=> ValuesOf(s) = {JSTrue}
    /\ getLogicType(s) = 2 <=> ValuesOf(s) = {JSFalse}
    /\ getLogicType(s) = 1 <=> Booleans \subseteq ValuesOf(s)
    /\ (Len(s.vars) = 0 /\ s.node = trueNode) => getLogicType(s) = 0
    /\ (Len(s.vars) = 0 /\ s.node = falseNode) => getLogicType(s) = 2

\* C6: for every record the classifier returns 0 iff the root evaluates to
\* true under all 2^n assignments, 2 iff it evaluates to false under all of
\* them, and 1 iff both values occur; without variables T gives 0 and F
\* gives 2.
C6_Classifier == \A s \in Records : ClassifiedAsStated(s)

\* the names of all the records
Names == UNION {{s.vars[k] : k \in 1..Len(s.vars)} : s \in Records}

\* the record's assignment, each variable read by its name
ReadByName(s, valuation) == [k \in 1..Len(s.vars) |-> valuation[s.vars[k]]]

SatisfiableTogether ==
    \E valuation \in [Names -> Booleans] :
        \A s \in Records : evaluate(s.node, ReadByName(s, valuation)) = JSTrue

\* C7: the joint checker returns 1 for the empty collection, and for a
\* non-empty one 0 iff one assignment of the union of the records' names
\* makes every record's root true, each record reading its variables by
\* name, and 2 otherwise.
C7_JointChecker ==
    getJointType(sentences) =
        IF sentences = <<>> THEN 1 ELSE IF SatisfiableTogether THEN 0 ELSE 2

\* two records, each satisfiable alone, that share a name at different
\* places of their tables and are not satisfiable together
C7_Witness ==
    /\ Len(sentences) = 2
    /\ getJointType(sentences) = 2
    /\ \A k \in 1..2 : getJointType(<<sentences[k]>>) = 0
    /\ \E a \in 1..Len(sentences[1].vars), b \in 1..Len(sentences[2].vars) :
          a # b /\ sentences[1].vars[a] = sentences[2].vars[b]

\* the numbers of variables the enumeration is built for: of each record, and
\* of the records together
EnumeratedCounts ==
    {Len(s.vars) : s \in Records} \cup {Len(JointVars(AllVars(sentences), <<>>))}

EnumerationAsStated(n) ==
    LET rows == LogicTypeAssignments(n)
    IN  /\ Len(rows) = 2^n
        /\ \A row \in 0..(2^n - 1) :
              /\ Len(rows[row + 1]) = n
              /\ \A j \in 0..(n - 1) :
                    /\ rows[row + 1][j + 1] \in Booleans
                    /\ rows[row + 1][j + 1] = JSTrue
                           <=> (row % 2^(n - j)) < 2^(n - j - 1)
        /\ \A j \in 1..n : rows[1][j] = JSTrue /\ rows[2^n][j] = JSFalse
        /\ \A a, b \in 1..(2^n) : a # b => rows[a] # rows[b]
        /\ {rows[a] : a \in 1..(2^n)} = AllAssignments(n)
        /\ TruthTableAssignments(n) = rows
        /\ JointTypeAssignments(n) = rows

\* C8: the enumeration for n variables has 2^n rows of length n, bit j of row
\* i is true iff (i mod 2^(n-j)) < 2^(n-j-1), row 0 is all true and the last
\* row all false, the rows are pairwise distinct and cover every assignment,
\* and the three copies of the enumeration give the same sequence.
C8_Enumeration == \A n \in EnumeratedCounts : EnumerationAsStated(n)

\* a record of two variables in a collection of three names
C8_Witness ==
    /\ \E s \in Records : Len(s.vars) = 2
    /\ Len(JointVars(AllVars(sentences), <<>>)) = 3
    /\ LogicTypeAssignments(3)[4] = <<JSTrue, JSFalse, JSFalse>>
    /\ getJointType(sentences) = 0

(***************************************************************************)
(* Properties of evaluate                                                  *)
(***************************************************************************)
\* every variable leaf of the tree has an index of a table of n names
WellFormed(node, n) ==
    \A k \in 1..Len(Leaves(node)) :
        Leaves(node)[k].kind = "variableNode" => Leaves(node)[k].index \in 0..(n - 1)

\* the standard truth tables
RECURSIVE Holds(_, _)
Holds(node, a) ==
    CASE node.kind = "trueNode" -> TRUE
      [] node.kind = "falseNode" -> FALSE
      [] node.kind = "negateNode" -> ~Holds(node.underlying, a)
      [] node.kind = "andNode" -> Holds(node.lhs, a) /\ Holds(node.rhs, a)
      [] node.kind = "orNode" -> Holds(node.lhs, a) \/ Holds(node.rhs, a)
      [] node.kind = "impliesNode" -> ~(Holds(node.lhs, a) /\ ~Holds(node.rhs, a))
      [] node.kind = "iffNode" -> Holds(node.lhs, a) = Holds(node.rhs, a)
      [] node.kind = "variableNode" -> a[node.index + 1] = JSTrue

BooleanOf(b) == IF b THEN JSTrue ELSE JSFalse

\* C11: for a well-formed AST and every assignment of as many values as there
\* are variables, evaluate returns the boolean of the standard truth tables:
\* the constants, Not negates, And is true iff both children are, Or iff at
\* least one is, Implies is false only for true and false, Iff is true iff the
\* children have the same value, and Var(i) is assignment[i].
C11_Evaluate ==
    (pc = "returned" /\ WellFormed(ast, Len(variables)))
    => \A a \in Assignments(Len(variables)) :
          evaluate(ast, a) = BooleanOf(Holds(ast, a))

Text_p_iff_q_or_r == <<"p", "<", "-", ">", "q", " ", "o", "r", " ", "r">>

C11_Witness ==
    /\ pc = "returned"
    /\ input = Text_p_iff_q_or_r
    /\ ast = iffNode(variableNode(0), orNode(variableNode(1), variableNode(2)))
    /\ evaluate(ast, <<JSFalse, JSFalse, JSFalse>>) = JSTrue
    /\ evaluate(ast, <<JSTrue, JSFalse, JSFalse>>) = JSFalse

(***************************************************************************)
(* Properties of the submits                                               *)
(***************************************************************************)
\* C12: a submit whose scan or parse fails produces no AST and leaves the
\* collection as it was, the same records in the same order; a record is
\* appended only by a submit whose parse succeeds.
\* (A step of handleSubmit leaves the error text or nothing in the field.)
C12_FailedSubmit ==
    [][/\ (input' \in {ErrorText, <<>>} /\ handleSubmit /\ parse(input).pc # "returned")
           => /\ sentences' = sentences
              /\ parse(input).ast = undefinedNode
       /\ Len(sentences') > Len(sentences)
           => /\ parse(input).pc = "returned"
              /\ SubSeq(sentences', 1, Len(sentences)) = sentences
              /\ Len(sentences') = Len(sentences) + 1
              /\ sentences'[Len(sentences')].node = parse(input).ast]_vars

\* a failed submit behind two successful ones
C12_Witness ==
    /\ input = ErrorText
    /\ Len(sentences) = 2
    /\ sentences[1].node = variableNode(0)

(***************************************************************************)
(* Properties of the errors                                                *)
(***************************************************************************)
\* the scan threw: the call has no tokens
LexicalError == pc = "thrown" /\ tokens = <<>>

\* the parser threw, behind a scan that gave tokens
SyntaxError == pc = "thrown" /\ tokens # <<>>

\* the tokens of the input, without the end-of-input marker
InputTokens == {tokens[n] : n \in 1..(Len(tokens) - 1)}

EmptyInputError == [description |-> "", start |-> 0, end |-> 0]

\* C13: every error thrown for an input of length L has a span with
\* 0 <= start <= end <= L; the span of a lexical error is one character; the
\* span of a syntax error is the span of one token of the input, except for
\* the error of the empty input, whose span is [0,0).
C13_Spans ==
    pc = "thrown"
    => /\ 0 <= thrown.start
       /\ thrown.start <= thrown.end
       /\ thrown.end <= Len(input)
       /\ LexicalError => thrown.end = thrown.start + 1
       /\ SyntaxError
          => \/ \E t \in InputTokens : <<thrown.start, thrown.end>> = Span(t)
             \/ thrown = EmptyInputError /\ InputTokens = {}

\* the lexical error of "p &#": the illegal character behind the stray one
C13_Witness ==
    /\ pc = "thrown"
    /\ input = <<"p", " ", "&", "#">>
    /\ thrown = [description |-> "Illegal character", start |-> 3, end |-> 4]

\* the record a step appended
Appended == sentences'[Len(sentences')]

\* the fields of the appended record that are built from the result of parse
BuiltFromParse ==
    /\ Appended.format = toString(parse(input).ast, parse(input).variables)
    /\ Appended.node = parse(input).ast
    /\ Appended.vars = parse(input).variables

\* C14: after a successful submit of the text s the appended record holds the
\* four fields of a formula record: its source text is s, its formatted text
\* is ast.toString(variables), and its node and variable table are the ast
\* and the variables that parse(s) returned.
C14_Record ==
    [][Len(sentences') > Len(sentences)
           => /\ DOMAIN Appended = {"plain", "format", "node", "vars"}
              /\ Appended.plain = input
              /\ BuiltFromParse]_vars

(***************************************************************************)
(* Properties of the truth table                                           *)
(***************************************************************************)
\* the subexpressions of a tree that are no variables
RECURSIVE Internal(_)
Internal(node) ==
    IF node.kind = "variableNode" THEN {}
    ELSE IF node.kind \in BinaryKinds
        THEN {node} \cup Internal(node.lhs) \cup Internal(node.rhs)
    ELSE IF node.kind = "negateNode" THEN {node} \cup Internal(node.underlying)
    ELSE {node}

\* the least depth at which the subexpression occurs in the tree, the root
\* at depth 0; a depth beyond the tree when it does not occur
RECURSIVE DepthIn(_, _)
DepthIn(sub, node) ==
    IF sub = node THEN 0
    ELSE IF node.kind \in BinaryKinds
        THEN 1 + Min(DepthIn(sub, node.lhs), DepthIn(sub, node.rhs))
    ELSE IF node.kind = "negateNode" THEN 1 + DepthIn(sub, node.underlying)
    ELSE 100

ColumnsAsStated(s) ==
    LET n == Len(s.vars)
        header == TruthTable(s).header
        columns == ssnodesOf(s)
    IN  /\ Len(header) = n + Cardinality(Internal(s.node))
        /\ SubSeq(header, 1, n) = s.vars
        /\ Len(columns) = Len(header) - n
        /\ \A k \in 1..Len(columns) : header[n + k] = toString(columns[k], s.vars)
        /\ {columns[k] : k \in 1..Len(columns)} = Internal(s.node)
        /\ \A a, b \in 1..Len(columns) : a # b => columns[a] # columns[b]
        /\ s.node.kind # "variableNode" => columns[1] = s.node
        /\ \A a, b \in 1..Len(columns) :
              a < b => DepthIn(columns[a], s.node) <= DepthIn(columns[b], s.node)
        /\ \A j \in 1..Len(TruthTable(s).rows) :
              Len(TruthTable(s).rows[j]) = Len(header)

\* C15: the truth table of a record has its n variable columns in the order
\* of the variable table, followed by exactly one column for each distinct
\* subexpression that is no variable, in breadth-first order from the root;
\* variables get no such column and no subexpression has two columns.
C15_Columns == \A s \in Records : ColumnsAsStated(s)

(***************************************************************************)
(* The order of the collection                                             *)
(***************************************************************************)
Orderings(n) ==
    {f \in [1..n -> 1..n] : \A a, b \in 1..n : a # b => f[a] # f[b]}

\* the collection in the order f
Permuted(f) == [k \in 1..Len(sentences) |-> sentences[f[k]]]

\* C16: the result of the joint checker is the same for every permutation of
\* the collection, and the classification of a record is the same at every
\* position and beside any other records.
C16_OrderIndependent ==
    \A f \in Orderings(Len(sentences)) :
        /\ getJointType(Permuted(f)) = getJointType(sentences)
        /\ \A k \in 1..Len(sentences) :
              getLogicType(Permuted(f)[k]) = getLogicType(sentences[f[k]])

\* two records whose names are first seen in another order when the records
\* change places, not satisfiable together
C16_Witness ==
    /\ Len(sentences) = 2
    /\ JointVars(AllVars(sentences), <<>>)
           # JointVars(AllVars(<<sentences[2], sentences[1]>>), <<>>)
    /\ getJointType(sentences) = 2
    /\ getJointType(<<sentences[2], sentences[1]>>) = 2
    /\ getLogicType(sentences[1]) = 1

(***************************************************************************)
(* Properties of the stacks of parse                                       *)
(***************************************************************************)
\* the value undefined is the tree or a part of it: a node was popped from
\* an empty operand stack
RECURSIVE HasUndefined(_)
HasUndefined(node) ==
    IF node.kind \in BinaryKinds THEN HasUndefined(node.lhs) \/ HasUndefined(node.rhs)
    ELSE IF node.kind = "negateNode" THEN HasUndefined(node.underlying)
    ELSE node = undefinedNode

\* C17: parse ends by returning a result or by throwing a {description,
\* start, end}; no assertion fails and unreachable is never reached: topOf is
\* never asked for the top of an empty stack, priorityOf and createOperatorNode
\* only get binary operators (or the end of input), and no node is popped
\* from an empty operand stack.
C17_NoInternalFailure ==
    /\ pc # "crashed"
    /\ crash = ""
    /\ \A k \in 1..Len(operands) : ~HasUndefined(operands[k])
    /\ pc = "returned" => ~HasUndefined(ast) /\ thrown = NoError
    /\ pc = "thrown" => ast = undefinedNode /\ thrown # NoError
    /\ (pc = "loop" /\ ~needOperand /\ operators # <<>>)
           => topOf(operators).type \in BinaryTypes \cup {"("}
    /\ (pc = "loop" /\ ~needOperand) => operands # <<>>

Text_not_paren_p == <<"~", "(", "p", ")">>

C17_Witness ==
    /\ pc = "returned"
    /\ input = Text_not_paren_p
    /\ ast = negateNode(variableNode(0))
    /\ operands = <<>>
    /\ operators = <<>>

\* the binary operators on a stack
BinaryOn(stack) == Len(SelectSeq(stack, isBinaryOperator))

\* C18: before every iteration of the loop of parse the operand stack has as
\* many nodes as there are binary operators on the operator stack when an
\* operand is needed, and one more when an operand has been obtained; so a
\* successful parse ends with one node on the operand stack, the root it
\* returns, and an operator stack that is empty once the end-of-input token
\* is removed.
C18_StackSizes ==
    /\ pc = "loop"
          => Len(operands) = BinaryOn(operators) + (IF needOperand THEN 0 ELSE 1)
    /\ (pc = "after" /\ parseEnd(Locals).pc = "returned")
          => /\ Len(operands) = 1
             /\ operators = <<tokens[Len(tokens)]>>
             /\ parseEnd(Locals).ast = operands[1]
    /\ pc = "returned" => operands = <<>> /\ operators = <<>>

\* behind the loop of "p and q": one node, and the end-of-input token
C18_Witness ==
    /\ pc = "after"
    /\ input = <<"p", " ", "a", "n", "d", " ", "q">>
    /\ operands = <<andNode(variableNode(0), variableNode(1))>>
    /\ TypesOf(operators) = <<EOF>>

(***************************************************************************)
(* Properties of the negations                                             *)
(***************************************************************************)
\* the tree under the negations at its top, and the number of those negations
RECURSIVE Negated(_)
Negated(node) == IF node.kind = "negateNode" THEN Negated(node.underlying) ELSE node

RECURSIVE NegationsOn(_)
NegationsOn(node) ==
    IF node.kind = "negateNode" THEN 1 + NegationsOn(node.underlying) ELSE 0

\* <<first, last, k>>: k >= 1 nested Not nodes are around the subtree whose
\* leaves are the leaves first..last of the whole tree, counted from off + 1
RECURSIVE NotGroups(_, _)
NotGroups(node, off) ==
    IF node.kind = "negateNode"
        THEN {<<off + 1, off + Len(Leaves(node)), NegationsOn(node)>>}
                 \cup NotGroups(Negated(node), off)
    ELSE IF node.kind \in BinaryKinds
        THEN NotGroups(node.lhs, off)
                 \cup NotGroups(node.rhs, off + Len(Leaves(node.lhs)))
    ELSE {}

\* the operand tokens among the first n tokens
OperandsUpTo(ts, n) == Len(OperandTokens(SubSeq(ts, 1, n)))

\* the close parenthesis of the open parenthesis at n
MatchingClose(ts, n) ==
    CHOOSE m \in (n + 1)..Len(ts) :
        /\ Len(OpenAt(ts, m)) = Len(OpenAt(ts, n)) - 1
        /\ \A l \in (n + 1)..(m - 1) : Len(OpenAt(ts, l)) >= Len(OpenAt(ts, n))

\* the places where a run of negation tokens begins, its length, and the
\* operand that follows it: a constant or a variable, or a parenthesised text
RunStarts(ts) ==
    {n \in 1..Len(ts) : ts[n].type = "~" /\ (n = 1 \/ ts[n - 1].type # "~")}

RECURSIVE RunLength(_, _)
RunLength(ts, n) ==
    IF n <= Len(ts) /\ ts[n].type = "~" THEN 1 + RunLength(ts, n + 1) ELSE 0

OperandAfter(ts, n) ==
    LET at == n + RunLength(ts, n)
    IN  IF ts[at].type = "("
        THEN <<OperandsUpTo(ts, at) + 1, OperandsUpTo(ts, MatchingClose(ts, at))>>
        ELSE <<OperandsUpTo(ts, at), OperandsUpTo(ts, at)>>

RECURSIVE SumOf(_, _)
SumOf(ts, runs) ==
    IF runs = {} THEN 0
    ELSE LET n == CHOOSE m \in runs : TRUE
         IN  RunLength(ts, n) + SumOf(ts, runs \ {n})

\* for every operand that follows negation tokens, the number of negation
\* tokens read for it: the runs right before it and before the parentheses
\* that hold nothing but it
WrittenGroups(ts) ==
    {<<OperandAfter(ts, n)[1], OperandAfter(ts, n)[2],
       SumOf(ts, {m \in RunStarts(ts) : OperandAfter(ts, m) = OperandAfter(ts, n)})>> :
         n \in RunStarts(ts)}

\* C19: k >= 1 consecutive negation tokens followed by a constant, a variable
\* or a parenthesised expression give exactly k nested Not nodes around that
\* operand alone, never around the result of a binary operator behind it.
C19_Negations ==
    pc = "returned" => NotGroups(ast, 0) = WrittenGroups(tokens)

\* ~~(p and ~q) and r
C19_Witness ==
    /\ pc = "returned"
    /\ input = <<"~","~","(","p"," ","a","n","d"," ","~","q",")"," ","a","n","d"," ","r">>
    /\ ast = andNode(negateNode(negateNode(
                         andNode(variableNode(0), negateNode(variableNode(1))))),
                     variableNode(2))

\* the operators above the nearest open parenthesis of the stack, or all of
\* them when the stack has none
RECURSIVE AboveParenthesis(_)
AboveParenthesis(stack) ==
    IF stack = <<>> \/ stack[Len(stack)].type = "(" THEN <<>>
    ELSE Append(AboveParenthesis(SubSeq(stack, 1, Len(stack) - 1)), stack[Len(stack)])

NothingNegatedMessage == "Nothing is negated by this operator."

\* C20: whenever an operand has been obtained, no negation token is on top of
\* the operator stack or between the top and the nearest open parenthesis
\* below it; so the handling of a close parenthesis never pops a negation,
\* and the error "Nothing is negated by this operator." is never raised.
C20_NoNegationOnTop ==
    /\ (pc = "loop" /\ ~needOperand)
          => \A k \in 1..Len(AboveParenthesis(operators)) :
                AboveParenthesis(operators)[k].type # "~"
    /\ thrown.description # NothingNegatedMessage

\* in "~(p)" before the close parenthesis: the negation waits below the
\* open parenthesis
C20_Witness ==
    /\ pc = "loop"
    /\ ~needOperand
    /\ input = Text_not_paren_p
    /\ TypesOf(operators) = <<"~", "(">>
    /\ tokens[i + 1].type = ")"

(***************************************************************************)
(* The joint result over submits and removals                              *)
(***************************************************************************)
\* the collection without its record at index (from 0)
Without(ss, index) == SubSeq(ss, 1, index) \o SubSeq(ss, index + 2, Len(ss))

\* a step that appends one record to the collection
Appends ==
    /\ Len(sentences') = Len(sentences) + 1
    /\ SubSeq(sentences', 1, Len(sentences)) = sentences

\* appending to a collection that is not satisfiable together leaves it so
UnsatisfiableStays ==
    (Appends /\ getJointType(sentences) = 2) => getJointType(sentences') = 2

\* a removal deletes exactly the record at its index, and a collection that
\* is satisfiable together stays so, or becomes the empty collection
SatisfiableStays ==
    \A index \in 0..(Len(sentences) - 1) :
        (Len(sentences') < Len(sentences) /\ removeSentence(index))
        => /\ sentences' = Without(sentences, index)
           /\ getJointType(sentences) = 0
                 => getJointType(sentences') = IF sentences' = <<>> THEN 1 ELSE 0

\* a collection that holds a record classified 2 is not satisfiable together
NoContradictionSatisfiable(ss) ==
    (\E k \in 1..Len(ss) : getLogicType(ss[k]) = 2) => getJointType(ss) # 0

\* so is every collection a step leaves (the first collection is empty)
ContradictionNeverSatisfiable ==
    sentences' # sentences => NoContradictionSatisfiable(sentences')

\* C21: over the submits and removals, appending a record to a collection
\* whose joint result is Unsatisfiable leaves it Unsatisfiable; removing one
\* record deletes exactly the record at the given position and leaves a
\* Satisfiable collection Satisfiable, or gives the no-formulas result when
\* the collection becomes empty; and a collection that holds a record
\* classified Contradiction is never Satisfiable.
C21_JointResultOverTime ==
    [][UnsatisfiableStays /\ SatisfiableStays /\ ContradictionNeverSatisfiable]_vars

\* a tautology appended to a collection that was not satisfiable before
C21_Witness ==
    /\ Len(sentences) = MaxSentences
    /\ getJointType(sentences) = 2
    /\ getJointType(SubSeq(sentences, 1, Len(sentences) - 1)) = 2
    /\ getLogicType(sentences[Len(sentences)]) = 0

====
